---- MODULE Spec2Model ----
(***************************************************************************)
\* A model of sanguinello's IR core (src/sgir/mod.rs): the kind checker
\* check_kinds over Type, and the evaluator eval/run over Expression.
\* Both are recursive tree walkers; they are modelled as recursive
\* operators, applied by the actions of a state machine whose initial
\* states enumerate bounded sets of environments and trees.
(***************************************************************************)
EXTENDS Integers, Sequences, FiniteSets, TLC

VARIABLES pc, kenv, typ, kind, subst, expr, value, depth

vars == <<pc, kenv, typ, kind, subst, expr, value, depth>>

\* ----------------------------------------------------------------------
\* Bounds of the enumerated inputs.
\* ----------------------------------------------------------------------
\* Longest parameter list and longest argument list of the enumerated trees.
MaxParams == 2
MaxArgs == 2
\* Nesting depth up to which every tree over the pools below is enumerated.
MaxDepth == 1
\* Number of nested eval frames the thread's stack holds before it overflows.
MaxStack == 7

SeqsUpTo(S, n) == UNION {[1..m -> S] : m \in 0..n}

Max(a, b) == IF a < b THEN b ELSE a

\* Iterator::zip stops at the shorter of the two sequences.
ZipLen(s1, s2) == IF Len(s1) < Len(s2) THEN Len(s1) ELSE Len(s2)

\* An empty HashMap.
EmptyMap == [i \in {} |-> i]

\* An insert that keeps the value a key already has.
InsertIfAbsent(map, id, v) ==
    [i \in (DOMAIN map) \cup {id} |-> IF i \in DOMAIN map THEN map[i] ELSE v]

\* HashMap::insert: a later insert of the same key overrides.
Insert(map, id, v) == [i \in (DOMAIN map) \cup {id} |-> IF i = id THEN v ELSE map[i]]

\* ----------------------------------------------------------------------
\* Kind, TypeBinding, Type, TypeError
\* ----------------------------------------------------------------------
Star == [k |-> "Star"]
Arrow(from, to) == [k |-> "Arrow", from |-> from, to |-> to]

TypeBinding(id, knd) == [id |-> id, kind |-> knd]

TVariable(id) == [t |-> "Variable", id |-> id]
ForAll(parameters, body) == [t |-> "ForAll", parameters |-> parameters, typ |-> body]
Instantiate(head, arguments) == [t |-> "Instantiate", typ |-> head, arguments |-> arguments]
TFunction(arguments, result) == [t |-> "Function", arguments |-> arguments, result |-> result]
TBoolean == [t |-> "Boolean"]
TNumber == [t |-> "Number"]

KindMismatch(expected, found) == [e |-> "KindMismatch", expected |-> expected, found |-> found]
ExpectedQuantifier(found) == [e |-> "ExpectedQuantifier", found |-> found]
UnboundIdentifier(id) == [e |-> "UnboundIdentifier", id |-> id]

\* TC<T> = Result<T, TypeError>
Ok(knd) == [ok |-> TRUE, kind |-> knd]
Err(error) == [ok |-> FALSE, err |-> error]

\* ----------------------------------------------------------------------
\* check_kinds
\* ----------------------------------------------------------------------

\* A from that lists the parameter kinds last to first.
FromReversed(parameters) ==
    [i \in 1..Len(parameters) |-> parameters[Len(parameters) + 1 - i].kind]

\* parameters.iter().map(|TypeBinding { kind, .. }| kind.clone()).collect()
FromOf(parameters) == [i \in 1..Len(parameters) |-> parameters[i].kind]

RECURSIVE ExtendKenv(_, _, _)
\* extended_kenv.extend(parameters...): inserts the pairs from position i on, in order.
ExtendKenv(env, parameters, i) ==
    IF i > Len(parameters) THEN env
    ELSE ExtendKenv(Insert(env, parameters[i].id, parameters[i].kind), parameters, i + 1)

RECURSIVE check_kinds(_, _)
RECURSIVE CheckArguments(_, _, _, _, _)
RECURSIVE CheckArgumentsNoReturn(_, _, _, _, _)
RECURSIVE CheckArgumentsAll(_, _, _, _, _)

\* A loop that compares the kinds but goes on after a mismatch.
CheckArgumentsNoReturn(env, from, to, arguments, i) ==
    IF i > ZipLen(from, arguments) THEN Ok(to)
    ELSE LET found == check_kinds(env, arguments[i]) IN
         IF ~found.ok THEN found
         ELSE CheckArgumentsNoReturn(env, from, to, arguments, i + 1)

\* A loop that checks every argument, also those past the end of from.
CheckArgumentsAll(env, from, to, arguments, i) ==
    IF i > Len(arguments) THEN Ok(to)
    ELSE LET found == check_kinds(env, arguments[i]) IN
         IF ~found.ok THEN found
         ELSE IF i <= Len(from) /\ from[i] # found.kind
              THEN Err(KindMismatch(from[i], found.kind))
         ELSE CheckArgumentsAll(env, from, to, arguments, i + 1)

\* The for loop over from.zip(arguments), from pair i on: `?` and the
\* KindMismatch return leave the loop at once; Ok(to) after the last pair.
CheckArguments(env, from, to, arguments, i) ==
    IF i > ZipLen(from, arguments) THEN Ok(to)
    ELSE LET found == check_kinds(env, arguments[i]) IN
         IF ~found.ok THEN found
         ELSE IF from[i] # found.kind THEN Err(KindMismatch(from[i], found.kind))
         ELSE CheckArguments(env, from, to, arguments, i + 1)

\* Type::Variable(id)
KindOfVariable(env, ty) ==
    IF ty.id \in DOMAIN env THEN Ok(env[ty.id]) ELSE Err(UnboundIdentifier(ty.id))

\* Type::ForAll { parameters, typ }
KindOfForAll(env, ty) ==
    LET from == FromOf(ty.parameters)
        extended_kenv == ExtendKenv(env, ty.parameters, 1)
        to == check_kinds(extended_kenv, ty.typ)
    IN  IF ~to.ok THEN to ELSE Ok(Arrow(from, to.kind))

\* An Instantiate arm that checks the arguments before it looks at the
\* kind of the head.
KindOfInstantiateArgumentsFirst(env, ty) ==
    LET head == check_kinds(env, ty.typ) IN
    IF ~head.ok THEN head
    ELSE LET from == IF head.kind.k = "Arrow" THEN head.kind.from ELSE <<Star>>
             to == IF head.kind.k = "Arrow" THEN head.kind.to ELSE Star
             args == CheckArguments(env, from, to, ty.arguments, 1)
         IN  IF ~args.ok THEN args
             ELSE IF head.kind.k = "Arrow" THEN args
             ELSE Err(ExpectedQuantifier(ty.typ))

\* Type::Instantiate { typ, arguments }
KindOfInstantiate(env, ty) ==
    LET head == check_kinds(env, ty.typ) IN
    IF ~head.ok THEN head
    ELSE IF head.kind.k = "Arrow"
         THEN CheckArguments(env, head.kind.from, head.kind.to, ty.arguments, 1)
         ELSE Err(ExpectedQuantifier(ty.typ))

\* A last arm that checks the result type of a Function.
KindOfOtherChecked(env, ty) ==
    IF ty.t = "Function"
    THEN LET result == check_kinds(env, ty.result) IN IF ~result.ok THEN result ELSE Ok(Star)
    ELSE Ok(Star)

\* _ => Ok(Kind::Star): Function, Boolean and Number.
KindOfOther(env, ty) == Ok(Star)

check_kinds(env, ty) ==
    CASE ty.t = "Variable" -> KindOfVariable(env, ty)
      [] ty.t = "ForAll" -> KindOfForAll(env, ty)
      [] ty.t = "Instantiate" -> KindOfInstantiate(env, ty)
      [] OTHER -> KindOfOther(env, ty)

\* ----------------------------------------------------------------------
\* Enumerated kind environments and types
\* ----------------------------------------------------------------------
TIds == {"a", "b"}
StarToStar == Arrow(<<Star>>, Star)
TypeBindings == {TypeBinding("a", Star), TypeBinding("a", StarToStar), TypeBinding("b", Star)}
TParamLists == SeqsUpTo(TypeBindings, MaxParams)

\* check_kinds takes any environment; the recursion reaches each of these.
KindEnvs == {EmptyMap, [b |-> Star], [a |-> StarToStar, b |-> Star]}

TLeaves == {TVariable(id) : id \in TIds} \cup {TBoolean, TNumber}

\* Argument types: a variable, a plain type, an ill-kinded instantiation.
IllKinded == Instantiate(TNumber, <<>>)
TArgPool == {TVariable("a"), TNumber, IllKinded}
TArgLists == SeqsUpTo(TArgPool, MaxArgs)

RECURSIVE TypesOfDepth(_)
\* Every Type of nesting depth <= d over the pools.
TypesOfDepth(d) ==
    IF d = 0 THEN TLeaves
    ELSE LET S == TypesOfDepth(d - 1) IN
         S \cup {ForAll(ps, b) : ps \in TParamLists, b \in S}
           \cup {Instantiate(h, as) : h \in S, as \in TArgLists}
           \cup {TFunction(as, r) : as \in TArgLists, r \in S}

\* (forall<..>. leaf) : the quantified types that get instantiated.
Quantified == {ForAll(ps, b) : ps \in TParamLists, b \in TLeaves}
TypeConstructor == ForAll(<<TypeBinding("b", Star)>>, TVariable("b"))
TArgLists2 == SeqsUpTo(TArgPool \cup {TypeConstructor}, MaxArgs)

\* Heads of kind Star that are an instantiation or a function type.
StarHeads == {Instantiate(q, <<TNumber>>) : q \in Quantified}
               \cup {TFunction(as, TVariable("a")) : as \in TArgLists}

\* The types check_kinds is called with: every type of depth <= MaxDepth
\* over the pools, and the deeper shapes named below.
TypeInput(ty) ==
    LET S == TypesOfDepth(MaxDepth - 1) IN
    \/ ty \in S
    \/ \E ps \in TParamLists, b \in S : ty = ForAll(ps, b)
    \/ \E h \in S, as \in TArgLists : ty = Instantiate(h, as)
    \/ \E as \in TArgLists, r \in S : ty = TFunction(as, r)
       \* forall<..>. forall<..>. v : a variable under two binding scopes
    \/ \E ps1 \in TParamLists, ps2 \in TParamLists, id \in TIds :
          ty = ForAll(ps1, ForAll(ps2, TVariable(id)))
       \* (forall<..>. leaf)<..> : an instantiation of a quantified type
    \/ \E q \in Quantified, as \in TArgLists2 : ty = Instantiate(q, as)
       \* an instantiation whose head is an instantiation or a function type
    \/ \E h \in StarHeads, as \in TArgLists : ty = Instantiate(h, as)

\* ----------------------------------------------------------------------
\* Binding, Expression, Value
\* ----------------------------------------------------------------------
Binding(id) == [id |-> id, typ |-> TNumber]

Variable(id) == [x |-> "Variable", id |-> id]
Boolean(b) == [x |-> "Boolean", b |-> b]
Number(n) == [x |-> "Number", n |-> n]
Function(parameters, body) == [x |-> "Function", parameters |-> parameters, body |-> body]
Application(function, arguments) == [x |-> "Application", function |-> function, arguments |-> arguments]

VBoolean(b) == [v |-> "Boolean", b |-> b]
VNumber(n) == [v |-> "Number", n |-> n]
VFunction(parameters, body) == [v |-> "Function", parameters |-> parameters, body |-> body]

\* The ways eval leaves without a Value: the HashMap index panics on a
\* missing key, the explicit panic!, and the stack running out.
Panic(msg, id) == [v |-> "panic", msg |-> msg, id |-> id]
UnboundPanic(id) == Panic("key not found", id)
NotAFunction == Panic("this is not a function", "")
StackOverflow == Panic("stack overflow", "")
IsPanic(val) == val.v = "panic"

\* ----------------------------------------------------------------------
\* eval, run
\* ----------------------------------------------------------------------

\* A fresh map where the code clones.
FreshMap(map) == EmptyMap

\* let mut extended_subst = subst.clone();
Clone(map) == map

RECURSIVE eval(_, _, _)
RECURSIVE ExtendSubst(_, _, _, _, _, _)
RECURSIVE ExtendSubstAll(_, _, _, _, _, _)
RECURSIVE ExtendSubstSequential(_, _, _, _, _, _)

\* An extend that evaluates every argument, also those past the last parameter.
ExtendSubstAll(env, extended, parameters, arguments, i, level) ==
    IF i > Len(arguments)
    THEN [ok |-> TRUE, env |-> extended, depth |-> level]
    ELSE LET arg == eval(env, arguments[i], level + 1) IN
         IF IsPanic(arg.val) THEN [ok |-> FALSE, val |-> arg.val, depth |-> arg.depth]
         ELSE LET next == IF i <= Len(parameters)
                          THEN Insert(extended, parameters[i].id, arg.val) ELSE extended
                  rest == ExtendSubstAll(env, next, parameters, arguments, i + 1, level)
              IN  [rest EXCEPT !.depth = Max(arg.depth, rest.depth)]

\* An extend that evaluates each argument under the bindings made so far.
ExtendSubstSequential(env, extended, parameters, arguments, i, level) ==
    IF i > ZipLen(parameters, arguments)
    THEN [ok |-> TRUE, env |-> extended, depth |-> level]
    ELSE LET arg == eval(extended, arguments[i], level + 1) IN
         IF IsPanic(arg.val) THEN [ok |-> FALSE, val |-> arg.val, depth |-> arg.depth]
         ELSE LET rest == ExtendSubstSequential(env, Insert(extended, parameters[i].id, arg.val),
                                                parameters, arguments, i + 1, level)
              IN  [rest EXCEPT !.depth = Max(arg.depth, rest.depth)]

\* extended_subst.extend(parameters.zip(arguments).map(|(param, arg)|
\* (param.id, eval(subst, arg)))): the pairs from position i on; each
\* argument is evaluated under subst when its pair is pulled, then inserted.
ExtendSubst(env, extended, parameters, arguments, i, level) ==
    IF i > ZipLen(parameters, arguments)
    THEN [ok |-> TRUE, env |-> extended, depth |-> level]
    ELSE LET arg == eval(env, arguments[i], level + 1) IN
         IF IsPanic(arg.val) THEN [ok |-> FALSE, val |-> arg.val, depth |-> arg.depth]
         ELSE LET rest == ExtendSubst(env, Insert(extended, parameters[i].id, arg.val),
                                      parameters, arguments, i + 1, level)
              IN  [rest EXCEPT !.depth = Max(arg.depth, rest.depth)]

\* An Application arm that, with the parameters bound, evaluates the
\* application again where the code evaluates the body.
EvalApplicationAgain(env, e, level) ==
    LET f == eval(env, e.function, level + 1) IN
    IF IsPanic(f.val) THEN f
    ELSE IF f.val.v # "Function" THEN [val |-> NotAFunction, depth |-> f.depth]
    ELSE LET ext == ExtendSubst(env, Clone(env), f.val.parameters, e.arguments, 1, level)
         IN  IF ~ext.ok THEN [val |-> ext.val, depth |-> Max(f.depth, ext.depth)]
             ELSE LET r == eval(ext.env, e, level + 1)
                  IN  [val |-> r.val, depth |-> Max(Max(f.depth, ext.depth), r.depth)]

\* Expression::Application { function, arguments }
EvalApplication(env, e, level) ==
    LET f == eval(env, e.function, level + 1) IN
    IF IsPanic(f.val) THEN f
    ELSE IF f.val.v # "Function" THEN [val |-> NotAFunction, depth |-> f.depth]
    ELSE LET ext == ExtendSubst(env, Clone(env), f.val.parameters, e.arguments, 1, level)
         IN  IF ~ext.ok THEN [val |-> ext.val, depth |-> Max(f.depth, ext.depth)]
             ELSE LET r == eval(ext.env, f.val.body, level + 1)
                  IN  [val |-> r.val, depth |-> Max(Max(f.depth, ext.depth), r.depth)]

\* eval(subst, expr) as frame number `level` of the stack; the result is
\* the value (or panic) and the deepest frame the call reached.
eval(env, e, level) ==
    IF level > MaxStack THEN [val |-> StackOverflow, depth |-> level]
    ELSE CASE e.x = "Variable" ->
                [val |-> IF e.id \in DOMAIN env THEN env[e.id] ELSE UnboundPanic(e.id),
                 depth |-> level]
           [] e.x = "Boolean" -> [val |-> VBoolean(e.b), depth |-> level]
           [] e.x = "Number" -> [val |-> VNumber(e.n), depth |-> level]
           [] e.x = "Function" -> [val |-> VFunction(e.parameters, e.body), depth |-> level]
           [] e.x = "Application" -> EvalApplication(env, e, level)

\* let subst = HashMap::new(); eval(&subst, expr)
run(e) == eval(EmptyMap, e, 1)

\* ----------------------------------------------------------------------
\* Enumerated value environments and expressions
\* ----------------------------------------------------------------------
Ids == {"x", "y"}
ParamLists == SeqsUpTo({Binding(id) : id \in Ids}, MaxParams)

Leaves == {Variable(id) : id \in Ids} \cup {Number(1), Boolean(TRUE)}

ArgPool == {Variable("x"), Variable("y"), Number(1)}
ArgLists == SeqsUpTo(ArgPool, MaxArgs)
NumberLists == SeqsUpTo({Number(1)}, MaxArgs)

RECURSIVE ExprsOfDepth(_)
\* Every Expression of nesting depth <= d over the pools.
ExprsOfDepth(d) ==
    IF d = 0 THEN Leaves
    ELSE LET S == ExprsOfDepth(d - 1) IN
         S \cup {Function(ps, b) : ps \in ParamLists, b \in S}
           \cup {Application(f, as) : f \in S, as \in ArgLists}

\* fn(ps) leaf : the function literals that get applied.
Literals == {Function(ps, b) : ps \in ParamLists, b \in Leaves}

\* f(g(1), ..) : an argument that is itself a call, binding x.
IdCall == Application(Function(<<Binding("x")>>, Variable("x")), <<Number(1)>>)

\* fn(ps) i(j) : a function that applies one variable to another.
SelfAppliers == {Function(ps, Application(Variable(i), <<Variable(j)>>)) :
                   ps \in SeqsUpTo({Binding(id) : id \in Ids}, 1), i \in Ids, j \in Ids}

\* The program main builds. Its last argument, 694208008135, is an i64 beyond
\* the 32-bit integers of the model; eval only copies a number, so the
\* largest 32-bit one stands for it.
MainProg ==
    Application(
        Function(<<Binding("chucc"), Binding("awe"), Binding("alex!"), Binding("j")>>,
                 Variable("alex!")),
        <<Number(420), Number(11),
          Function(<<Binding("x")>>, Variable("x")), Number(2147483647)>>)

\* The expressions eval is called with: every expression of depth <=
\* MaxDepth over the pools, and the deeper shapes named below.
ExprInput(e) ==
    LET S == ExprsOfDepth(MaxDepth - 1) IN
    \/ e \in S
    \/ \E ps \in ParamLists, b \in S : e = Function(ps, b)
    \/ \E f \in S, as \in ArgLists : e = Application(f, as)
       \* (fn(ps) leaf)(args) : a function literal applied on the spot
    \/ \E f \in Literals, as \in ArgLists : e = Application(f, as)
       \* (fn(ps1) fn(ps2) v)(args1)(args2) : a literal returned out of a call
    \/ \E ps1 \in ParamLists, ps2 \in ParamLists, id \in Ids,
          as1 \in NumberLists, as2 \in NumberLists :
          e = Application(Application(Function(ps1, Function(ps2, Variable(id))), as1), as2)
       \* (fn(ps1) (fn(ps2) leaf)(args2))(args1) : a call inside a called body
    \/ \E ps1 \in ParamLists, f \in Literals, as1 \in NumberLists,
          as2 \in SeqsUpTo({Variable("x")}, MaxArgs) :
          e = Application(Function(ps1, Application(f, as2)), as1)
       \* (fn(ps) v)(g(1), a) : a call among the arguments
    \/ \E ps \in ParamLists, id \in Ids, a \in ArgPool :
          e = Application(Function(ps, Variable(id)), <<IdCall, a>>)
       \* w1(w2) : a function applied to a function
    \/ \E w1 \in SelfAppliers, w2 \in SelfAppliers : e = Application(w1, <<w2>>)
    \/ e = MainProg

\* eval's recursion reaches each of these substitutions (by a call that
\* binds x, or x and y, to an evaluated argument).
Substitutions == {[x |-> VNumber(3)],
                  [x |-> VNumber(3), y |-> VNumber(4)],
                  [x |-> VFunction(<<Binding("y")>>, Variable("y")), y |-> VNumber(4)]}

\* ----------------------------------------------------------------------
\* State machine
\* ----------------------------------------------------------------------
NoKind == [ok |-> FALSE, err |-> [e |-> "none"]]
NoType == [t |-> "none"]
NoExpr == [x |-> "none"]
NoValue == [v |-> "none"]

InitKinds ==
    /\ pc = "check_kinds"
    /\ kenv \in KindEnvs
    /\ TypeInput(typ)
    /\ kind = NoKind
    /\ subst = EmptyMap
    /\ expr = NoExpr
    /\ value = NoValue
    /\ depth = 0

InitEval ==
    /\ \/ pc = "run" /\ subst = EmptyMap
       \/ pc = "eval" /\ subst \in Substitutions
    /\ ExprInput(expr)
    /\ value = NoValue
    /\ depth = 0
    /\ kenv = EmptyMap
    /\ typ = NoType
    /\ kind = NoKind

\* A call check_kinds(&kenv, typ) from outside.
CheckKinds ==
    /\ pc = "check_kinds"
    /\ kind' = check_kinds(kenv, typ)
    /\ pc' = "done"
    /\ UNCHANGED <<kenv, typ, subst, expr, value, depth>>

\* A call run(expr).
Run ==
    /\ pc = "run"
    /\ LET r == run(expr) IN value' = r.val /\ depth' = r.depth
    /\ pc' = "done"
    /\ UNCHANGED <<kenv, typ, kind, subst, expr>>

\* A call eval(&subst, expr) with the substitution of an enclosing call.
Eval ==
    /\ pc = "eval"
    /\ LET r == eval(subst, expr, 1) IN value' = r.val /\ depth' = r.depth
    /\ pc' = "done"
    /\ UNCHANGED <<kenv, typ, kind, subst, expr>>

NextKinds == CheckKinds
NextEval == Run \/ Eval

SpecKinds == InitKinds /\ [][NextKinds]_vars
SpecEval == InitEval /\ [][NextEval]_vars

\* ----------------------------------------------------------------------
\* Properties of check_kinds
\* ----------------------------------------------------------------------
Done == pc = "done"
Shorter(m, n) == IF m < n THEN m ELSE n

\* The positions of parameters that declare id, and the kind of the last one.
Declares(parameters, id) == {i \in 1..Len(parameters) : parameters[i].id = id}
Last(S) == CHOOSE i \in S : \A j \in S : j <= i
DeclaredKind(parameters, id) == parameters[Last(Declares(parameters, id))].kind

\* env extended with all the (id, kind) pairs of parameters.
Scoped(env, parameters) ==
    [id \in (DOMAIN env) \cup {parameters[i].id : i \in 1..Len(parameters)} |->
        IF Declares(parameters, id) # {} THEN DeclaredKind(parameters, id) ELSE env[id]]

\* C1: a ForAll whose body has kind k under the environment extended with
\* its parameters has kind Arrow{from, to: k}, from being the declared kinds
\* in declaration order, one per parameter (duplicates kept, none for an
\* empty list); a ForAll whose body fails returns the body's error.
C1_ForAllIsArrowOfDeclaredKinds ==
    (Done /\ typ.t = "ForAll") =>
        LET body == check_kinds(Scoped(kenv, typ.parameters), typ.typ) IN
        IF body.ok
        THEN /\ kind.ok
             /\ kind.kind.k = "Arrow"
             /\ Len(kind.kind.from) = Len(typ.parameters)
             /\ \A i \in 1..Len(typ.parameters) : kind.kind.from[i] = typ.parameters[i].kind
             /\ kind.kind.to = body.kind
        ELSE kind = body

C1_Witness ==
    /\ Done
    /\ kenv = EmptyMap
    /\ typ = ForAll(<<TypeBinding("a", Star), TypeBinding("a", StarToStar)>>, TVariable("a"))
    /\ kind = Ok(Arrow(<<Star, StarToStar>>, StarToStar))

\* The head of the instantiation typ and its arguments, checked on their own.
HeadKind == check_kinds(kenv, typ.typ)
ArgKind(i) == check_kinds(kenv, typ.arguments[i])
Pairs == 1..Shorter(Len(HeadKind.kind.from), Len(typ.arguments))
Offends(i) == ~ArgKind(i).ok \/ ArgKind(i).kind # HeadKind.kind.from[i]
InstantiatesArrow == Done /\ typ.t = "Instantiate" /\ HeadKind.ok /\ HeadKind.kind.k = "Arrow"

\* C2: an Instantiate whose head is an Arrow{from, to} returns the error of
\* the lowest position, among the first min(|from|, |arguments|), whose
\* argument fails (that error) or has a kind other than from[i]
\* (KindMismatch{expected: from[i], found}); nothing of a later argument
\* is reported.
C2_FirstOffendingArgument ==
    InstantiatesArrow =>
        \A i \in Pairs :
            (Offends(i) /\ \A j \in 1..(i - 1) : ~Offends(j)) =>
                kind = IF ~ArgKind(i).ok THEN ArgKind(i)
                       ELSE Err(KindMismatch(HeadKind.kind.from[i], ArgKind(i).kind))

C2_Witness ==
    /\ Done
    /\ kenv = EmptyMap
    /\ typ = Instantiate(ForAll(<<TypeBinding("a", Star), TypeBinding("b", Star)>>, TNumber),
                         <<TypeConstructor, TVariable("a")>>)
    /\ kind = Err(KindMismatch(Star, StarToStar))

\* C3: an Instantiate whose head is an Arrow{from, to} and whose first
\* min(|from|, |arguments|) arguments have the kinds from lists returns
\* Ok(to), whatever the two lengths and the arguments past |from| are.
C3_MatchingPrefixGivesTo ==
    (InstantiatesArrow /\ \A i \in Pairs : ~Offends(i)) => kind = Ok(HeadKind.kind.to)

C3_Witness ==
    /\ Done
    /\ kenv = EmptyMap
    /\ typ = Instantiate(ForAll(<<TypeBinding("a", Star)>>, TVariable("a")),
                         <<TNumber, IllKinded>>)
    /\ kind = Ok(Star)

\* C4: an Instantiate whose head has kind Star returns
\* ExpectedQuantifier{found: the head}, whatever the arguments are; an
\* error of the head is returned as it is.
C4_StarHeadExpectsQuantifier ==
    (Done /\ typ.t = "Instantiate") =>
        /\ (HeadKind.ok /\ HeadKind.kind = Star) => kind = Err(ExpectedQuantifier(typ.typ))
        /\ ~HeadKind.ok => kind = HeadKind

C4_Witness ==
    /\ Done
    /\ kenv = EmptyMap
    /\ typ = Instantiate(Instantiate(ForAll(<<TypeBinding("a", Star)>>, TVariable("a")),
                                     <<TNumber>>),
                         <<TVariable("a")>>)
    /\ kind = Err(ExpectedQuantifier(typ.typ))

\* The kind of variable id under the parameter lists scopes (outermost
\* first) inside env: the last declaration of the innermost list that
\* declares id, else env's, else UnboundIdentifier(id).
Resolve(env, scopes, id) ==
    LET binders == {n \in 1..Len(scopes) : Declares(scopes[n], id) # {}} IN
    IF binders # {} THEN Ok(DeclaredKind(scopes[Last(binders)], id))
    ELSE IF id \in DOMAIN env THEN Ok(env[id])
    ELSE Err(UnboundIdentifier(id))

\* The kind of forall<scopes[1]>. .. forall<scopes[n]>. body, given body's.
RECURSIVE Quantify(_, _, _)
Quantify(scopes, n, body) ==
    IF ~body.ok \/ n > Len(scopes) THEN body
    ELSE LET to == Quantify(scopes, n + 1, body)
         IN  Ok(Arrow([i \in 1..Len(scopes[n]) |-> scopes[n][i].kind], to.kind))

\* C5: a variable resolves to the last declaration of the innermost
\* enclosing ForAll that binds it, else to the caller's environment, else
\* fails with UnboundIdentifier of that identifier; a variable among the
\* arguments of an Instantiate is resolved in the caller's environment even
\* when the ForAll at the head binds its name.
C5_InnermostScopeWins ==
    Done =>
        /\ typ.t = "Variable" => kind = Resolve(kenv, <<>>, typ.id)
        /\ (typ.t = "ForAll" /\ typ.typ.t = "Variable") =>
              kind = Quantify(<<typ.parameters>>, 1,
                              Resolve(kenv, <<typ.parameters>>, typ.typ.id))
        /\ (typ.t = "ForAll" /\ typ.typ.t = "ForAll" /\ typ.typ.typ.t = "Variable") =>
              kind = Quantify(<<typ.parameters, typ.typ.parameters>>, 1,
                              Resolve(kenv, <<typ.parameters, typ.typ.parameters>>,
                                      typ.typ.typ.id))
        /\ (typ.t = "Instantiate" /\ typ.typ.t = "ForAll" /\ HeadKind.ok
               /\ Len(typ.typ.parameters) > 0 /\ Len(typ.arguments) > 0
               /\ typ.arguments[1].t = "Variable") =>
              LET found == Resolve(kenv, <<>>, typ.arguments[1].id)
                  expected == typ.typ.parameters[1].kind
              IN  /\ ~found.ok => kind = found
                  /\ (found.ok /\ found.kind # expected) =>
                        kind = Err(KindMismatch(expected, found.kind))

C5_Witness ==
    /\ Done
    /\ kenv = [a |-> StarToStar, b |-> Star]
    /\ typ = ForAll(<<TypeBinding("a", StarToStar)>>,
                    ForAll(<<TypeBinding("a", StarToStar), TypeBinding("a", Star)>>,
                           TVariable("a")))
    /\ kind = Ok(Arrow(<<StarToStar>>, Arrow(<<StarToStar, Star>>, Star)))

\* C6: Boolean, Number and every Function type have kind Star in every
\* environment, whatever the argument and result types of the Function are.
C6_FunctionBooleanNumberAreStar ==
    (Done /\ typ.t \in {"Boolean", "Number", "Function"}) => kind = Ok(Star)

C6_Witness ==
    /\ Done
    /\ kenv = EmptyMap
    /\ typ = TFunction(<<TVariable("a"), IllKinded>>, TVariable("b"))
    /\ kind = Ok(Star)

\* ----------------------------------------------------------------------
\* Properties of eval and run
\* ----------------------------------------------------------------------

\* The callee of the application expr and its arguments, evaluated on
\* their own under the caller's substitution.
Callee == eval(subst, expr.function, 2).val
ArgValue(i) == eval(subst, expr.arguments[i], 2).val
Bound == 1..Shorter(Len(Callee.parameters), Len(expr.arguments))
Binds(parameters, n, id) == {i \in 1..n : parameters[i].id = id}
CallsFunction == Done /\ expr.x = "Application" /\ Callee.v = "Function"

\* subst extended with parameter i -> value of argument i for i in Bound.
CallSubst ==
    LET n == Shorter(Len(Callee.parameters), Len(expr.arguments))
        ids == {Callee.parameters[i].id : i \in 1..n}
    IN  [id \in (DOMAIN subst) \cup ids |->
            IF id \in ids THEN ArgValue(Last(Binds(Callee.parameters, n, id)))
            ELSE subst[id]]

\* C7: an Application of a function value with parameters p1..pm to
\* arguments a1..an returns the value of the body under the caller's
\* substitution extended with exactly p_i -> value of a_i for i <= min(m, n),
\* a later binding of a repeated id overriding an earlier one; nothing
\* depends on the arguments past the m-th, and no arity error is raised.
C7_CallBindsZippedParameters ==
    (CallsFunction /\ \A i \in Bound : ~IsPanic(ArgValue(i))) =>
        value = eval(CallSubst, Callee.body, 2).val

C7_Witness ==
    /\ Done
    /\ subst = EmptyMap
    /\ expr = Application(Function(<<Binding("x")>>, Variable("x")),
                          <<Number(1), Variable("y")>>)
    /\ value = VNumber(1)

\* C8: a variable among the arguments of a call gets the caller's binding
\* of its name, and aborts as unbound when the caller has none, also when
\* it names a parameter of the callee that an earlier argument of the same
\* call was bound to, or a sibling argument is a call that binds it.
C8_ArgumentsSeeCallerSubst ==
    CallsFunction =>
        \A i \in Bound :
            (expr.arguments[i].x = "Variable"
                 /\ \A j \in 1..(i - 1) : ~IsPanic(ArgValue(j))) =>
                LET id == expr.arguments[i].id
                    p == Callee.parameters[i].id
                IN  /\ id \notin DOMAIN subst => value = UnboundPanic(id)
                    /\ (/\ id \in DOMAIN subst
                        /\ Callee.body = Variable(p)
                        /\ \A j \in Bound : (j > i => Callee.parameters[j].id # p)
                                               /\ ~IsPanic(ArgValue(j)))
                          => value = subst[id]

C8_Witness ==
    /\ Done
    /\ subst = [x |-> VNumber(3)]
    /\ expr = Application(Function(<<Binding("x"), Binding("y")>>, Variable("y")),
                          <<Number(1), Variable("x")>>)
    /\ value = VNumber(3)

\* The depth of an expression tree.
RECURSIVE ExprDepth(_)
SeqMax(f, n) == IF n = 0 THEN 0 ELSE Last({f[i] : i \in 1..n})
ExprDepth(e) ==
    CASE e.x = "Function" -> 1 + ExprDepth(e.body)
      [] e.x = "Application" ->
           1 + Max(ExprDepth(e.function),
                   SeqMax([i \in 1..Len(e.arguments) |-> ExprDepth(e.arguments[i])],
                          Len(e.arguments)))
      [] OTHER -> 1

\* Every Application in e has a Function literal as its function.
RECURSIVE LiteralHeads(_)
LiteralHeads(e) ==
    CASE e.x = "Function" -> LiteralHeads(e.body)
      [] e.x = "Application" ->
           /\ e.function.x = "Function"
           /\ LiteralHeads(e.function)
           /\ \A i \in 1..Len(e.arguments) : LiteralHeads(e.arguments[i])
      [] OTHER -> TRUE

\* C9, as claimed: run(expr) never nests eval deeper than the depth of the
\* tree expr, and so finishes without exhausting the stack.
C9_Claimed_DepthBoundedByTree ==
    (Done /\ expr.x # "none" /\ subst = EmptyMap) =>
        value # StackOverflow /\ depth <= ExprDepth(expr)

\* C9, amended: eval of an expression in which the function of every
\* Application is a Function literal never nests deeper than the depth of
\* the tree, and does not exhaust a stack that holds that many frames.
C9_LiteralHeadsDepthBoundedByTree ==
    (Done /\ expr.x # "none" /\ LiteralHeads(expr)) =>
        value # StackOverflow /\ depth <= ExprDepth(expr)

C9_Witness ==
    /\ Done
    /\ subst = EmptyMap
    /\ expr = Application(Function(<<Binding("x")>>,
                                   Application(Function(<<Binding("y")>>, Variable("y")),
                                               <<Variable("x")>>)),
                          <<Number(1)>>)
    /\ value = VNumber(1)
    /\ depth = 3

\* The shape (fn(ps1) fn(ps2) v)(args1)(args2): the literal fn(ps2) v is
\* evaluated inside the first call and applied outside it.
AppliesReturned ==
    /\ Done
    /\ expr.x = "Application"
    /\ expr.function.x = "Application"
    /\ expr.function.function.x = "Function"
    /\ expr.function.function.body.x = "Function"
    /\ expr.function.function.body.body.x = "Variable"
    /\ \A i \in 1..Shorter(Len(expr.function.function.parameters),
                           Len(expr.function.arguments)) :
          ~IsPanic(eval(subst, expr.function.arguments[i], 3).val)
    /\ \A i \in 1..Shorter(Len(expr.function.function.body.parameters),
                           Len(expr.arguments)) : ~IsPanic(ArgValue(i))

\* C10: a function value carries no substitution: the free variable of a
\* function literal that was returned out of a call is resolved, when the
\* function is applied, in the substitution of that later call site; it
\* aborts as unbound there even when the enclosing call bound the name, and
\* takes the call site's binding when the two differ.
C10_FreeVariablesSeeCallSite ==
    AppliesReturned =>
        LET lit == expr.function.function.body
            id == lit.body.id
            n == Shorter(Len(lit.parameters), Len(expr.arguments))
        IN  value = IF Binds(lit.parameters, n, id) # {}
                    THEN ArgValue(Last(Binds(lit.parameters, n, id)))
                    ELSE IF id \in DOMAIN subst THEN subst[id]
                    ELSE UnboundPanic(id)

C10_Witness ==
    /\ Done
    /\ subst = [x |-> VNumber(3)]
    /\ expr = Application(
                  Application(Function(<<Binding("x")>>,
                                       Function(<<Binding("y")>>, Variable("x"))),
                              <<Number(1)>>),
                  <<Number(1)>>)
    /\ value = VNumber(3)

====
